---- MODULE Spec2Model ----
(***************************************************************************)
(* The snake game of src/main.rs: the grid, the head/tail tracker with its *)
(* queue of head directions, update_snake, add_food, capture_input and the *)
(* loop of main.                                                           *)
(*                                                                         *)
(* A position is a pair <<x, y>> (row, column), as CellPos; pos[1] is the  *)
(* code's pos.0 and pos[2] its pos.1.  A grid is a function from row index *)
(* to a function from column index to Cell, both counted from 0.  The      *)
(* VecDeque head_directions is a sequence whose first element is the front *)
(* of the deque.                                                           *)
(***************************************************************************)
EXTENDS Integers, Sequences, FiniteSets, TLC

VARIABLES
    grid,             \* GameState.grid
    head,             \* GameState.head
    tail,             \* GameState.tail
    head_directions,  \* GameState.head_directions
    last_direction,   \* GameState.last_direction
    stdin_keys,       \* key events the async reader holds, oldest first
    user_input,       \* main: user_input, the result of capture_input
    new_direction,    \* main: new_direction
    is_valid,         \* main: is_valid, the result of update_snake
    new_head,         \* update_snake: (new_head_x, new_head_y)
    screen,           \* what refresh_screen drew last: message and grid
    max_amount,       \* add_food: max_amount
    old_grid,         \* history: the grid add_food was called on
    trail,            \* history: the latest head positions, newest first
    quiet,            \* history: the advances since food was last eaten
    found,            \* history: what the cell of the latest head move held
    straight,         \* history: the run of Right advances since the start
    pc                \* the position of main

vars == <<grid, head, tail, head_directions, last_direction, stdin_keys,
          user_input, new_direction, is_valid, screen, max_amount, old_grid,
          trail, quiet, found, straight, new_head, pc>>

----------------------------------------------------------------------------
(* Bounds of the model.                                                    *)

\* The grid main plays on (GRID_ROWS x GRID_COLUMNS in the code, 15 x 30).
GRID_ROWS == 2
GRID_COLUMNS == 3
\* The draws of main's add_food call (MAX_FOOD_AMOUNT in the code, 15).
MAX_FOOD_AMOUNT == 1
\* Key events that queue up between two polls of the game loop.
MaxPending == 1
\* Key events queued before the first poll, in SpecInput.
MaxKeys == 3
\* The grids and amounts add_food is applied to in SpecFood.
FoodRows == 1
FoodCols == 3
MaxAmount == 2

----------------------------------------------------------------------------
(* Constants and types of the code.                                        *)

SNAKE == 1
EMPTY == 0
FOOD == 2
QUIT_CHAR == "q"

Up == "Up"
Right == "Right"
Down == "Down"
Left == "Left"
SnakeDirection == {Up, Right, Down, Left}

\* Option<UserInput>: None, Some(Quit) or Some(Direction(d)).
NoInput == "None"
Quit == "Quit"
Direction(d) == d

\* What the key iterator yields: Ok(Key::Char('q')), Ok of an arrow key,
\* Ok of any other key, or Err.
KeyRight == "KeyRight"
KeyDown == "KeyDown"
KeyLeft == "KeyLeft"
KeyUp == "KeyUp"
KeyOther == "KeyOther"
KeyErr == "Err"
NoKey == "NoKey"
KeyEvents == {QUIT_CHAR, KeyRight, KeyDown, KeyLeft, KeyUp, KeyOther, KeyErr}

\* `v as i16` of a non-negative integer: the low 16 bits, two's complement.
AsI16(v) ==
    LET m == v % 65536
    IN  IF m >= 32768 THEN m - 65536 ELSE m

\* `v as usize` of an i16: a negative value wraps to the top of the usize
\* range.  TLC's integers have 32 bits, so the 2^64 of the code is
\* represented by 2^30: a wrapped value is as far beyond every grid extent
\* and has the same low 16 bits.
AsUsize(v) == IF v < 0 THEN v + 2^30 ELSE v

grid_size(g) == <<Cardinality(DOMAIN g), Cardinality(DOMAIN g[0])>>

\* Whether g[x][y] is an index the grid has (the code panics otherwise).
HasCell(g, x, y) == x \in DOMAIN g /\ y \in DOMAIN g[x]

SetCell(g, x, y, c) == [g EXCEPT ![x] = [g[x] EXCEPT ![y] = c]]

Cells(g) == {<<x, y>> : x \in DOMAIN g, y \in DOMAIN g[0]}

CountCells(g, c) == Cardinality({p \in Cells(g) : g[p[1]][p[2]] = c})

----------------------------------------------------------------------------
(* The game state and its operations.  A GameState is a record of the      *)
(* fields of the struct (timing, a constant Duration, is left out) with a  *)
(* field panic that is TRUE once an operation has panicked: an index out   *)
(* of the grid, or unwrap() on the None of an empty deque.                 *)

GameState ==
    [grid |-> grid, last_direction |-> last_direction, head |-> head,
     tail |-> tail, head_directions |-> head_directions, panic |-> FALSE]

\* An initial state whose tail cell is left EMPTY.
init_game_state_unmarked_tail(nrows, ncols) ==
    LET empty == [x \in 0..(nrows - 1) |-> [y \in 0..(ncols - 1) |-> EMPTY]]
        hd == <<0, 1>>
        tl == <<0, 0>>
        ok == nrows > 0 /\ HasCell(empty, hd[1], hd[2])
    IN  [grid |-> IF ok THEN SetCell(empty, hd[1], hd[2], SNAKE) ELSE empty,
         last_direction |-> Right,
         head |-> hd,
         tail |-> tl,
         head_directions |-> <<Right>>,
         panic |-> ~ok]

init_game_state(nrows, ncols) ==
    LET empty == [x \in 0..(nrows - 1) |-> [y \in 0..(ncols - 1) |-> EMPTY]]
        hd == <<0, 1>>
        tl == <<0, 0>>
        ok == nrows > 0 /\ HasCell(empty, hd[1], hd[2])
                        /\ HasCell(empty, tl[1], tl[2])
    IN  [grid |-> IF ok
                  THEN SetCell(SetCell(empty, hd[1], hd[2], SNAKE),
                               tl[1], tl[2], SNAKE)
                  ELSE empty,
         last_direction |-> Right,
         head |-> hd,
         tail |-> tl,
         head_directions |-> <<Right>>,
         panic |-> ~ok]

\* A next position with the row offsets of Up and Down exchanged.
_calc_position_flipped(pos, direction) ==
    LET x == AsI16(pos[1])
        y == AsI16(pos[2])
    IN  CASE direction = Right -> <<x, y + 1>>
          [] direction = Down -> <<x - 1, y>>
          [] direction = Left -> <<x, y - 1>>
          [] direction = Up -> <<x + 1, y>>

_calc_position(pos, direction) ==
    LET x == AsI16(pos[1])
        y == AsI16(pos[2])
    IN  CASE direction = Right -> <<x, y + 1>>
          [] direction = Down -> <<x + 1, y>>
          [] direction = Left -> <<x, y - 1>>
          [] direction = Up -> <<x - 1, y>>

\* A push at the back of the queue.
push_front_at_back(q, d) == Append(q, d)

\* VecDeque::pop_back and push_front on a sequence whose head is the front.
pop_back(q) == SubSeq(q, 1, Len(q) - 1)
push_front(q, d) == <<d>> \o q

\* A deque that yields its newest direction to the tail.
back_is_front(q) == q[1]

\* The direction pop_back() yields: the oldest one.
back(q) == q[Len(q)]

\* A tail that moves on and leaves its old cell SNAKE.
_update_snake_tail_keeps_cell(state) ==
    IF state.head_directions = <<>>
    THEN [state EXCEPT !.panic = TRUE]
    ELSE LET t == _calc_position(state.tail, back(state.head_directions))
         IN  [state EXCEPT
                !.head_directions = pop_back(state.head_directions),
                !.tail = <<AsUsize(t[1]), AsUsize(t[2])>>]

\* A tail that moves on first and then empties the cell it has moved to.
_update_snake_tail_clears_next(state) ==
    IF state.head_directions = <<>>
    THEN [state EXCEPT !.panic = TRUE]
    ELSE LET t == _calc_position(state.tail, back(state.head_directions))
             next == <<AsUsize(t[1]), AsUsize(t[2])>>
         IN  IF ~HasCell(state.grid, next[1], next[2])
             THEN [state EXCEPT !.panic = TRUE]
             ELSE [state EXCEPT
                     !.grid = SetCell(state.grid, next[1], next[2], EMPTY),
                     !.head_directions = pop_back(state.head_directions),
                     !.tail = next]

_update_snake_tail(state) ==
    IF ~HasCell(state.grid, state.tail[1], state.tail[2])
    THEN [state EXCEPT !.panic = TRUE]
    ELSE LET g == SetCell(state.grid, state.tail[1], state.tail[2], EMPTY)
         IN  IF state.head_directions = <<>>
             THEN [state EXCEPT !.grid = g, !.panic = TRUE]
             ELSE LET t == _calc_position(state.tail,
                                          back(state.head_directions))
                  IN  [state EXCEPT
                         !.grid = g,
                         !.head_directions = pop_back(state.head_directions),
                         !.tail = <<AsUsize(t[1]), AsUsize(t[2])>>]

_update_snake_head(state, new_head_x, new_head_y, direction) ==
    IF ~HasCell(state.grid, new_head_x, new_head_y)
    THEN [state EXCEPT !.head = <<new_head_x, new_head_y>>, !.panic = TRUE]
    ELSE [state EXCEPT
            !.head = <<new_head_x, new_head_y>>,
            !.grid = SetCell(state.grid, new_head_x, new_head_y, SNAKE),
            !.head_directions = push_front(state.head_directions, direction)]

\* A boundary test that leaves the columns out.
out_of_bounds_rows_only(g, p) ==
    LET size == grid_size(g)
    IN  \/ p[1] < 0
        \/ p[1] >= AsI16(size[1])

\* A boundary test that lets the head one cell past the far edges.
out_of_bounds_off_by_one(g, p) ==
    LET size == grid_size(g)
    IN  \/ p[1] < 0
        \/ p[2] < 0
        \/ p[1] > AsI16(size[1])
        \/ p[2] > AsI16(size[2])

\* The boundary test of update_snake on the signed next head position p.
out_of_bounds(g, p) ==
    LET size == grid_size(g)
    IN  \/ p[1] < 0
        \/ p[2] < 0
        \/ p[1] >= AsI16(size[1])
        \/ p[2] >= AsI16(size[2])

\* update_snake past its boundary test, for the next head position p: the
\* state it leaves and the IsGameValid it returns.
move_snake(state, p, direction) ==
    LET x == AsUsize(p[1])
        y == AsUsize(p[2])
    IN  IF ~HasCell(state.grid, x, y)
        THEN [state |-> [state EXCEPT !.panic = TRUE], valid |-> FALSE]
        ELSE LET does_head_meets_food == state.grid[x][y] = FOOD
                 moved == _update_snake_head(state, x, y, direction)
                 done == IF ~does_head_meets_food /\ ~moved.panic
                         THEN _update_snake_tail(moved)
                         ELSE moved
             IN  [state |-> IF done.panic
                            THEN done
                            ELSE [done EXCEPT !.last_direction = direction],
                  valid |-> TRUE]

\* An update_snake that records the direction before its boundary test.
update_snake_records_first(state, direction) ==
    LET p == _calc_position(state.head, direction)
        s == [state EXCEPT !.last_direction = direction]
    IN  IF out_of_bounds(state.grid, p)
        THEN [state |-> s, valid |-> FALSE]
        ELSE move_snake(s, p, direction)

\* An update_snake that ends the game when the head runs into the snake.
update_snake_self_collision(state, direction) ==
    LET p == _calc_position(state.head, direction)
    IN  IF out_of_bounds(state.grid, p)
           \/ state.grid[p[1]][p[2]] = SNAKE
        THEN [state |-> state, valid |-> FALSE]
        ELSE move_snake(state, p, direction)

update_snake(state, direction) ==
    LET p == _calc_position(state.head, direction)
    IN  IF out_of_bounds(state.grid, p)
        THEN [state |-> state, valid |-> FALSE]
        ELSE move_snake(state, p, direction)

----------------------------------------------------------------------------
(* add_food: the draws of the random number generator are the sequence     *)
(* food_locations, one cell of the grid per draw.                          *)

\* An add_food that puts food on whatever cell is drawn.
RECURSIVE add_food_anywhere(_, _)
add_food_anywhere(g, food_locations) ==
    IF food_locations = <<>>
    THEN g
    ELSE add_food_anywhere(SetCell(g, Head(food_locations)[1],
                                   Head(food_locations)[2], FOOD),
                           Tail(food_locations))

RECURSIVE add_food(_, _)
add_food(g, food_locations) ==
    IF food_locations = <<>>
    THEN g
    ELSE LET food_x == Head(food_locations)[1]
             food_y == Head(food_locations)[2]
         IN  add_food(IF g[food_x][food_y] = EMPTY
                      THEN SetCell(g, food_x, food_y, FOOD)
                      ELSE g,
                      Tail(food_locations))

\* Every outcome of max_amount draws of gen_range over the grid.
FoodLocations(g, n) == [1..n -> Cells(g)]

----------------------------------------------------------------------------
(* capture_input: the scan of the pending key events.                      *)

\* A scan that reads on after the quit key.
RECURSIVE scan_keys_no_break(_, _)
scan_keys_no_break(keys, last_key) ==
    IF keys = <<>>
    THEN [last_key |-> last_key, rest |-> <<>>]
    ELSE scan_keys_no_break(Tail(keys),
                            IF Head(keys) = KeyErr THEN NoKey ELSE Head(keys))

\* The for loop: last_key after the scan and the events left unread.
RECURSIVE scan_keys(_, _)
scan_keys(keys, last_key) ==
    IF keys = <<>>
    THEN [last_key |-> last_key, rest |-> <<>>]
    ELSE LET k == IF Head(keys) = KeyErr THEN NoKey ELSE Head(keys)
         IN  IF k = QUIT_CHAR
             THEN [last_key |-> k, rest |-> Tail(keys)]
             ELSE scan_keys(Tail(keys), k)

\* The final match on last_key.
match_key(last_key) ==
    CASE last_key = QUIT_CHAR -> Quit
      [] last_key = KeyRight -> Direction(Right)
      [] last_key = KeyDown -> Direction(Down)
      [] last_key = KeyLeft -> Direction(Left)
      [] last_key = KeyUp -> Direction(Up)
      [] OTHER -> NoInput

capture_input(keys) ==
    LET s == scan_keys(keys, NoKey)
    IN  [input |-> match_key(s.last_key), rest |-> s.rest]

----------------------------------------------------------------------------
(* History variables.                                                      *)

\* How far back the claims about the tail read the head's path: two
\* positions more than the queue q holds directions.
Reach(q) == Len(q) + 2

\* trail: the head's positions, newest first (trail[1] is head), cut to
\* Reach(head_directions) entries.
TrailCut(t, q) == SubSeq(t, 1, IF Len(t) < Reach(q) THEN Len(t) ELSE Reach(q))

\* quiet: how many advances in a row, up to now, returned true without
\* eating food, counted up to Reach(head_directions).
QuietStep(n, valid, ate, q) ==
    IF ~valid \/ ate THEN 0
    ELSE IF n + 1 < Reach(q) THEN n + 1 ELSE Reach(q)

\* found: the value (EMPTY, SNAKE or FOOD) of the cell the head moved onto
\* in the latest advance that returned true; EMPTY before the first.

\* straight: while every advance since the start was called with Right,
\* how many there were, whether all returned true and whether one ate food.
\* The record is Broken from the first advance with another direction.
Broken == [right |-> FALSE, k |-> 0, valid |-> FALSE, ate |-> FALSE]

StraightStep(s, direction, valid, ate) ==
    IF s.right /\ direction = Right
    THEN [right |-> TRUE, k |-> s.k + 1, valid |-> s.valid /\ valid,
          ate |-> s.ate \/ ate]
    ELSE Broken

----------------------------------------------------------------------------
(* main.                                                                   *)

\* The state after init_game_state(GRID_ROWS, GRID_COLUMNS), before add_food.
Init ==
    LET game == init_game_state(GRID_ROWS, GRID_COLUMNS)
    IN  /\ grid = game.grid
        /\ head = game.head
        /\ tail = game.tail
        /\ head_directions = game.head_directions
        /\ last_direction = game.last_direction
        /\ stdin_keys = <<>>
        /\ user_input = NoInput
        /\ new_direction = game.last_direction
        /\ is_valid = TRUE
        /\ screen = [message |-> "", grid |-> game.grid]
        /\ max_amount = MAX_FOOD_AMOUNT
        /\ old_grid = game.grid
        /\ trail = <<game.head>>
        /\ quiet = 0
        /\ found = EMPTY
        /\ straight = [right |-> TRUE, k |-> 0, valid |-> TRUE, ate |-> FALSE]
        /\ new_head = game.head
        /\ pc = IF game.panic THEN "panic" ELSE "add_food"

\* add_food(&mut game.grid, max_amount), returning to position `to` of main.
AddFoodTo(to) ==
    /\ pc = "add_food"
    /\ \E food_locations \in FoodLocations(grid, max_amount) :
           grid' = add_food(grid, food_locations)
    /\ old_grid' = grid
    /\ pc' = to
    /\ UNCHANGED <<head, tail, head_directions, last_direction, stdin_keys,
                   user_input, new_direction, is_valid, screen, max_amount,
                   trail, quiet, found, straight,
                   new_head>>

AddFood == AddFoodTo("render_start")

\* refresh_screen(&mut stdout, "Start", &game.grid)
RenderStart ==
    /\ pc = "render_start"
    /\ screen' = [message |-> "Start", grid |-> grid]
    /\ pc' = "poll"
    /\ UNCHANGED <<grid, head, tail, head_directions, last_direction,
                   stdin_keys, user_input, new_direction, is_valid,
                   max_amount, old_grid, trail, quiet, found, straight,
                   new_head>>

\* The terminal delivers a key event.  Only the events pending when the loop
\* polls are ever read, so the events are delivered while main is about to
\* poll.
KeyPress ==
    /\ pc = "poll"
    /\ Len(stdin_keys) < MaxPending
    /\ \E k \in KeyEvents : stdin_keys' = Append(stdin_keys, k)
    /\ UNCHANGED <<grid, head, tail, head_directions, last_direction,
                   user_input, new_direction, is_valid, screen, max_amount,
                   old_grid, trail, quiet, found, straight, new_head,
                   pc>>

\* A direction check that also sends the direction held before the first step
\* when nothing was typed.
tick_direction_restart(input, last) ==
    IF input \in SnakeDirection THEN input ELSE Right

\* The direction of this tick: the one typed, or else the one the snake last
\* moved in.
tick_direction(input, last) ==
    IF input \in SnakeDirection THEN input ELSE last

\* A quit check that lets the tick go on.
quits_never(input) == FALSE

\* if let UserInput::Quit = user_input { break; }
quits(input) == input = Quit

\* The head of the loop body: capture_input, the break on Quit and the
\* choice of new_direction.
Poll ==
    /\ pc = "poll"
    /\ LET r == capture_input(stdin_keys)
       IN  /\ user_input' = r.input
           /\ stdin_keys' = r.rest
           /\ IF quits(r.input)
              THEN /\ pc' = "exit"
                   /\ UNCHANGED new_direction
              ELSE /\ pc' = "update"
                   /\ new_direction' = tick_direction(r.input,
                                                      last_direction)
    /\ UNCHANGED <<grid, head, tail, head_directions, last_direction,
                   is_valid, screen, max_amount, old_grid, trail, quiet,
                   found, straight,
                   new_head>>

\* let is_valid = update_snake(&mut game, new_direction)
Update ==
    /\ pc = "update"
    /\ LET r == update_snake(GameState, new_direction)
           p == _calc_position(head, new_direction)
           moved == r.valid /\ ~r.state.panic
           ate == moved /\ grid[p[1]][p[2]] = FOOD
       IN  /\ grid' = r.state.grid
           /\ head' = r.state.head
           /\ tail' = r.state.tail
           /\ head_directions' = r.state.head_directions
           /\ last_direction' = r.state.last_direction
           /\ is_valid' = IF r.state.panic THEN is_valid ELSE r.valid
           /\ new_head' = p
           /\ pc' = IF r.state.panic THEN "panic" ELSE "render"
           /\ trail' = IF moved
                       THEN TrailCut(<<r.state.head>> \o trail,
                                     r.state.head_directions)
                       ELSE trail
           /\ quiet' = QuietStep(quiet, moved, ate, r.state.head_directions)
           /\ found' = IF moved THEN grid[p[1]][p[2]] ELSE found
           /\ straight' = StraightStep(straight, new_direction, r.valid, ate)
    /\ UNCHANGED <<stdin_keys, user_input, new_direction, screen, max_amount,
                   old_grid>>

\* A loop body that breaks on an invalid update without the last screen.
Render_breaks_unrendered ==
    /\ pc = "render"
    /\ IF is_valid
       THEN /\ screen' = [message |-> "Iteration", grid |-> grid]
            /\ pc' = "poll"
       ELSE /\ UNCHANGED screen
            /\ pc' = "exit"
    /\ user_input' = NoInput
    /\ UNCHANGED <<grid, head, tail, head_directions, last_direction,
                   stdin_keys, new_direction, is_valid, max_amount, old_grid,
                   trail, quiet, found, straight,
                   new_head>>

\* The rest of the loop body: the screen of a valid update and the next
\* iteration, or the screen of the game over and the break.  The locals of
\* the body end with the iteration.
Render ==
    /\ pc = "render"
    /\ IF is_valid
       THEN /\ screen' = [message |-> "Iteration", grid |-> grid]
            /\ pc' = "poll"
       ELSE /\ screen' = [message |-> "Game is over", grid |-> grid]
            /\ pc' = "exit"
    /\ user_input' = NoInput
    /\ UNCHANGED <<grid, head, tail, head_directions, last_direction,
                   stdin_keys, new_direction, is_valid, max_amount, old_grid,
                   trail, quiet, found, straight,
                   new_head>>

\* After the loop: the cursor is shown again and main returns.
Exit ==
    /\ pc = "exit"
    /\ pc' = "done"
    /\ UNCHANGED <<grid, head, tail, head_directions, last_direction,
                   stdin_keys, user_input, new_direction, is_valid, screen,
                   max_amount, old_grid, trail, quiet, found, straight,
                   new_head>>

Next == AddFood \/ RenderStart \/ KeyPress \/ Poll \/ Update \/ Render \/ Exit

Spec == Init /\ [][Next]_vars

----------------------------------------------------------------------------
(* add_food on any grid: the grid is any FoodRows x FoodCols arrangement   *)
(* of the three cell values and max_amount any amount up to MaxAmount.     *)

ArbitraryGrids == [0..(FoodRows - 1) -> [0..(FoodCols - 1) -> {EMPTY, SNAKE, FOOD}]]

InitFood ==
    LET game == init_game_state(FoodRows, FoodCols)
    IN  /\ grid \in ArbitraryGrids
        /\ max_amount \in 0..MaxAmount
        /\ old_grid = grid
        /\ head = game.head
        /\ tail = game.tail
        /\ head_directions = game.head_directions
        /\ last_direction = game.last_direction
        /\ stdin_keys = <<>>
        /\ user_input = NoInput
        /\ new_direction = game.last_direction
        /\ is_valid = TRUE
        /\ screen = [message |-> "", grid |-> grid]
        /\ trail = <<game.head>>
        /\ quiet = 0
        /\ found = EMPTY
        /\ straight = [right |-> TRUE, k |-> 0, valid |-> TRUE, ate |-> FALSE]
        /\ new_head = game.head
        /\ pc = "add_food"

AddFoodCall == AddFoodTo("food_done")

NextFood == AddFoodCall

SpecFood == InitFood /\ [][NextFood]_vars

----------------------------------------------------------------------------
(* The first poll of the game loop with any key events pending: the keys   *)
(* were typed while main started, and none is typed afterwards.            *)

KeySeqs(n) == UNION {[1..m -> KeyEvents] : m \in 0..n}

InitInput ==
    LET game == init_game_state(GRID_ROWS, GRID_COLUMNS)
    IN  /\ \E food_locations \in FoodLocations(game.grid, MAX_FOOD_AMOUNT) :
               grid = add_food(game.grid, food_locations)
        /\ head = game.head
        /\ tail = game.tail
        /\ head_directions = game.head_directions
        /\ last_direction = game.last_direction
        /\ stdin_keys \in KeySeqs(MaxKeys)
        /\ user_input = NoInput
        /\ new_direction = game.last_direction
        /\ is_valid = TRUE
        /\ screen = [message |-> "Start", grid |-> grid]
        /\ max_amount = MAX_FOOD_AMOUNT
        /\ old_grid = game.grid
        /\ trail = <<game.head>>
        /\ quiet = 0
        /\ found = EMPTY
        /\ straight = [right |-> TRUE, k |-> 0, valid |-> TRUE, ate |-> FALSE]
        /\ new_head = game.head
        /\ pc = "poll"

NextInput == Poll \/ Update \/ Render \/ Exit

SpecInput == InitInput /\ [][NextInput]_vars

----------------------------------------------------------------------------
(* The vocabulary of the claims, stated on the grid's geometry and not     *)
(* through the operators above.                                            *)

Offset(d) ==
    CASE d = Right -> <<0, 1>>
      [] d = Down -> <<1, 0>>
      [] d = Left -> <<0, -1>>
      [] d = Up -> <<-1, 0>>

NextCell(pos, d) == <<pos[1] + Offset(d)[1], pos[2] + Offset(d)[2]>>

InsideGrid(g, p) ==
    /\ 0 <= p[1] /\ p[1] < Cardinality(DOMAIN g)
    /\ 0 <= p[2] /\ p[2] < Cardinality(DOMAIN g[0])

CellAt(g, p) == g[p[1]][p[2]]

SnakeCells(g) == {p \in Cells(g) : CellAt(g, p) = SNAKE}

\* The cells on which two grids of one size differ.
Changed(g, h) == {p \in Cells(g) : CellAt(g, p) # CellAt(h, p)}

\* The sum of all cell values of a grid.
GridSum(g) == CountCells(g, SNAKE) * SNAKE + CountCells(g, FOOD) * FOOD

\* The cell the advance about to be made moves the head to.
Target == NextCell(head, new_direction)

----------------------------------------------------------------------------
(* C1..C7: update_snake (advance), under Spec.  A step that leaves         *)
(* pc = "update" is one call of update_snake with new_direction.           *)

\* C1: whenever the next head position is outside the grid, update_snake
\* returns false and grid, head, tail, head_directions and last_direction
\* are what they were before the call.
C1_BoundaryNoMutation ==
    [][(pc = "update" /\ ~InsideGrid(grid, Target))
         => /\ pc' = "render"
            /\ is_valid' = FALSE
            /\ grid' = grid
            /\ head' = head
            /\ tail' = tail
            /\ head_directions' = head_directions
            /\ last_direction' = last_direction]_vars

\* An advance of a grown snake, in a direction other than the one before,
\* has returned false.
C1_Witness ==
    /\ pc = "render"
    /\ ~is_valid
    /\ Len(head_directions) >= 2
    /\ new_direction # last_direction

\* C2: update_snake returns false exactly when the next head position is
\* outside the grid; every move inside returns true, a move onto a SNAKE
\* cell included.
C2_FalseIffOutside ==
    [][pc = "update"
         => /\ pc' = "render"
            /\ is_valid' = InsideGrid(grid, Target)]_vars

\* An advance has moved the head onto a SNAKE cell and returned true.
C2_Witness ==
    /\ pc = "render"
    /\ is_valid
    /\ found = SNAKE

\* C3: when the head moves onto a FOOD cell, the number of SNAKE cells grows
\* by one, the tail stays, and the cell of the tail is SNAKE afterwards.
C3_Growth ==
    [][(pc = "update" /\ InsideGrid(grid, Target)
          /\ CellAt(grid, Target) = FOOD)
         => /\ CountCells(grid', SNAKE) = CountCells(grid, SNAKE) + 1
            /\ tail' = tail
            /\ CellAt(grid', tail) = SNAKE]_vars

\* C4: when the head moves onto an EMPTY cell, the number of SNAKE cells
\* stays and the cell that was the tail's is EMPTY afterwards.
C4_NonGrowth ==
    [][(pc = "update" /\ InsideGrid(grid, Target)
          /\ CellAt(grid, Target) = EMPTY)
         => /\ CountCells(grid', SNAKE) = CountCells(grid, SNAKE)
            /\ CellAt(grid', tail) = EMPTY]_vars

\* C5 as amended: within a run of advances that returned true and ate no
\* food, the tail is where the head was as many advances ago as
\* head_directions holds directions (one less than the cells of the body).
C5_TailFollowsByQueue ==
    LET m == Len(head_directions)
    IN  (quiet >= 1 /\ Len(trail) > m) => tail = trail[m + 1]

\* C5 as claimed: within such a run, as long as the body has cells, the
\* tail is where the head was as many advances ago as the body has cells.
\* The body is taken whole: its cells are one more than the directions.
C5_TailFollowsByLength ==
    LET len == CountCells(grid, SNAKE)
    IN  (len = Len(head_directions) + 1 /\ quiet >= len /\ Len(trail) > len)
            => tail = trail[len + 1]

\* A snake that has grown has made, without eating, as many advances as its
\* queue holds directions: its tail is on a cell the head was on in the run.
C5_Witness ==
    /\ Len(head_directions) >= 2
    /\ quiet >= Len(head_directions)
    /\ Len(trail) > Len(head_directions)
    /\ tail # <<0, 0>>

\* C6: after k <= ncols - 2 advances, all with Right, from the initial state
\* on a grid without food on row 0, every advance returned true, the head
\* is at (0, k + 1), the tail at (0, k) and these two cells are the SNAKE
\* cells.  (No food on row 0 at the start: none there now and none eaten.)
C6_StraightRun ==
    (/\ straight.right
     /\ straight.k <= GRID_COLUMNS - 2
     /\ ~straight.ate
     /\ \A y \in 0..(GRID_COLUMNS - 1) : grid[0][y] # FOOD)
        => /\ straight.valid
           /\ head = <<0, straight.k + 1>>
           /\ tail = <<0, straight.k>>
           /\ SnakeCells(grid) = {head, tail}

\* The straight run has reached the last column.
C6_Witness ==
    /\ pc = "render"
    /\ straight.right
    /\ straight.k = GRID_COLUMNS - 2
    /\ straight.k >= 1
    /\ ~straight.ate
    /\ \A y \in 0..(GRID_COLUMNS - 1) : grid[0][y] # FOOD

\* C7: no advance panics: head and tail are inside the grid,
\* head_directions is never empty, and the position the tail moves to next
\* is inside the grid.
C7_NeverPanics ==
    /\ pc # "panic"
    /\ InsideGrid(grid, head)
    /\ InsideGrid(grid, tail)
    /\ head_directions # <<>>
    /\ InsideGrid(grid, NextCell(tail, head_directions[Len(head_directions)]))

\* The tail of a grown snake has moved, and the head has run into the body.
C7_Witness ==
    /\ pc = "render"
    /\ is_valid
    /\ Len(head_directions) >= 2
    /\ tail # <<0, 0>>
    /\ found = SNAKE

----------------------------------------------------------------------------
(* C8, C9: add_food, under SpecFood.                                       *)

\* C8: add_food changes only cells that were EMPTY, each to FOOD, and at
\* most max_amount of them.
C8_FoodPlacement ==
    pc = "food_done"
        => /\ \A p \in Changed(old_grid, grid) :
                  CellAt(old_grid, p) = EMPTY /\ CellAt(grid, p) = FOOD
           /\ Cardinality(Changed(old_grid, grid)) <= max_amount

\* add_food has placed food on a grid that held snake and food, and fewer
\* cells than it drew.
C8_Witness ==
    /\ pc = "food_done"
    /\ Changed(old_grid, grid) # {}
    /\ Cardinality(Changed(old_grid, grid)) < max_amount
    /\ CountCells(old_grid, SNAKE) >= 1
    /\ CountCells(old_grid, FOOD) >= 1

\* C9: after add_food with n >= 2 draws on a freshly initialised grid, the
\* sum of the cell values exceeds 2 * SNAKE + (n - 2) * FOOD.
C9_FoodSum ==
    (/\ pc = "food_done"
     /\ old_grid = init_game_state(FoodRows, FoodCols).grid
     /\ max_amount >= 2)
        => GridSum(grid) > 2 * SNAKE + (max_amount - 2) * FOOD

----------------------------------------------------------------------------
(* C10: capture_input, under SpecInput.  A step that leaves pc = "poll" is *)
(* one call of capture_input on the pending events stdin_keys.             *)

IsDirectional(k) == k \in {KeyRight, KeyDown, KeyLeft, KeyUp}

DirectionOf(k) ==
    CASE k = KeyRight -> Right
      [] k = KeyDown -> Down
      [] k = KeyLeft -> Left
      [] k = KeyUp -> Up

QuitAt(keys) == {i \in 1..Len(keys) : keys[i] = QUIT_CHAR}

DirectionalAt(keys) == {i \in 1..Len(keys) : IsDirectional(keys[i])}

Least(S) == CHOOSE i \in S : \A j \in S : i <= j

Greatest(S) == CHOOSE i \in S : \A j \in S : j <= i

\* With the quit key among the events: the result is Quit, the loop ends,
\* and the events after the first quit key stay unread.
QuitHonoured ==
    QuitAt(stdin_keys) # {}
        => /\ user_input' = Quit
           /\ pc' = "exit"
           /\ stdin_keys' = SubSeq(stdin_keys, Least(QuitAt(stdin_keys)) + 1,
                                   Len(stdin_keys))

\* C10 as amended: without a quit key among the events, the last event
\* decides: if it is a directional key the tick uses its direction;
\* otherwise (another key, an error, or no event at all) the result is None
\* and the tick uses last_direction, whatever came before.  With a quit
\* key, QuitHonoured.
C10_LastEventDecides ==
    [][pc = "poll"
         => /\ QuitHonoured
            /\ QuitAt(stdin_keys) = {}
                 => /\ stdin_keys' = <<>>
                    /\ pc' = "update"
                    /\ IF stdin_keys # <<>>
                          /\ IsDirectional(stdin_keys[Len(stdin_keys)])
                       THEN LET d == DirectionOf(stdin_keys[Len(stdin_keys)])
                            IN  user_input' = Direction(d)
                                /\ new_direction' = d
                       ELSE user_input' = NoInput
                            /\ new_direction' = last_direction]_vars

\* C10 as claimed: without a quit key among the events, the tick uses the
\* direction of the most recent directional key among them.  With a quit
\* key, QuitHonoured.
C10_MostRecentDirectional ==
    [][pc = "poll"
         => /\ QuitHonoured
            /\ (QuitAt(stdin_keys) = {} /\ DirectionalAt(stdin_keys) # {})
                 => LET d == DirectionOf(
                                 stdin_keys[Greatest(DirectionalAt(stdin_keys))])
                    IN  new_direction' = d]_vars

\* A poll has met the quit key with events queued behind it: it returned
\* Quit and left them unread.
C10_Witness ==
    /\ pc = "exit"
    /\ user_input = Quit
    /\ stdin_keys # <<>>

----------------------------------------------------------------------------
(* init_game_state for any size: the start of main and of test_food_gen,   *)
(* init_game_state(nrows, ncols) followed by add_food, for every size up   *)
(* to InitRows x InitCols and every amount up to MaxAmount.                *)

InitRows == 3
InitCols == 3

InitStart ==
    \E nrows \in 1..InitRows, ncols \in 1..InitCols :
        LET game == init_game_state(nrows, ncols)
        IN  /\ grid = game.grid
            /\ head = game.head
            /\ tail = game.tail
            /\ head_directions = game.head_directions
            /\ last_direction = game.last_direction
            /\ stdin_keys = <<>>
            /\ user_input = NoInput
            /\ new_direction = game.last_direction
            /\ is_valid = TRUE
            /\ screen = [message |-> "", grid |-> game.grid]
            /\ max_amount \in 0..MaxAmount
            /\ old_grid = game.grid
            /\ trail = <<game.head>>
            /\ quiet = 0
            /\ found = EMPTY
            /\ straight = [right |-> TRUE, k |-> 0, valid |-> TRUE,
                           ate |-> FALSE]
            /\ new_head = game.head
            /\ pc = IF game.panic THEN "panic" ELSE "add_food"

NextStart == AddFoodCall

SpecStart == InitStart /\ [][NextStart]_vars

----------------------------------------------------------------------------
(* The game without input: main with no key event ever delivered, for any  *)
(* amount of food up to MaxAmount.  main is a sequential program: between  *)
(* its sleeps every step of its loop is taken, whence the fairness.        *)

InitNoInput ==
    LET game == init_game_state(GRID_ROWS, GRID_COLUMNS)
    IN  /\ grid = game.grid
        /\ head = game.head
        /\ tail = game.tail
        /\ head_directions = game.head_directions
        /\ last_direction = game.last_direction
        /\ stdin_keys = <<>>
        /\ user_input = NoInput
        /\ new_direction = game.last_direction
        /\ is_valid = TRUE
        /\ screen = [message |-> "", grid |-> game.grid]
        /\ max_amount \in 0..MaxAmount
        /\ old_grid = game.grid
        /\ trail = <<game.head>>
        /\ quiet = 0
        /\ found = EMPTY
        /\ straight = [right |-> TRUE, k |-> 0, valid |-> TRUE, ate |-> FALSE]
        /\ new_head = game.head
        /\ pc = IF game.panic THEN "panic" ELSE "add_food"

NextNoInput == AddFood \/ RenderStart \/ Poll \/ Update \/ Render \/ Exit

SpecNoInput ==
    InitNoInput /\ [][NextNoInput]_vars /\ WF_vars(NextNoInput)

----------------------------------------------------------------------------
(* _calc_position on any position: the head is any cell of a PosRows x     *)
(* PosCols grid (the size of the code's grid) and the direction any of     *)
(* the four.                                                               *)

PosRows == 15
PosCols == 30

InitPosition ==
    LET game == init_game_state(PosRows, PosCols)
    IN  /\ grid = game.grid
        /\ head \in Cells(game.grid)
        /\ tail = game.tail
        /\ head_directions = game.head_directions
        /\ last_direction = game.last_direction
        /\ stdin_keys = <<>>
        /\ user_input = NoInput
        /\ new_direction \in SnakeDirection
        /\ is_valid = TRUE
        /\ screen = [message |-> "", grid |-> game.grid]
        /\ max_amount = MAX_FOOD_AMOUNT
        /\ old_grid = game.grid
        /\ trail = <<head>>
        /\ quiet = 0
        /\ found = EMPTY
        /\ straight = [right |-> TRUE, k |-> 0, valid |-> TRUE, ate |-> FALSE]
        /\ new_head = head
        /\ pc = "calc_position"

\* let (new_head_x, new_head_y) = _calc_position(&game.head, &new_direction)
CalcPosition ==
    /\ pc = "calc_position"
    /\ new_head' = _calc_position(head, new_direction)
    /\ pc' = "position_done"
    /\ UNCHANGED <<grid, head, tail, head_directions, last_direction,
                   stdin_keys, user_input, new_direction, is_valid, screen,
                   max_amount, old_grid, trail, quiet, found, straight>>

NextPosition == CalcPosition

SpecPosition == InitPosition /\ [][NextPosition]_vars

----------------------------------------------------------------------------
(* The direction of a tick without input.                                  *)

\* The step is a poll of the loop that yields no input.
PollsNothing == pc = "poll" /\ pc' # "poll" /\ user_input' = NoInput

\* The step is an advance that returns true.
Advances == pc = "update" /\ pc' = "render" /\ is_valid'

\* C11: the game starts with last_direction = Right; a tick whose poll yields
\* no input goes on to the advance and calls it with last_direction; an
\* advance that returns true sets last_direction to the direction it was
\* called with, and no other step changes last_direction.
C11_StickyDirection ==
    /\ last_direction = Right
    /\ [][/\ PollsNothing =>
                 pc' = "update" /\ new_direction' = last_direction
          /\ Advances => last_direction' = new_direction
          /\ ~Advances => last_direction' = last_direction]_vars

\* A tick without input has advanced the snake in a direction other than
\* the first one.
C11_Witness ==
    /\ pc = "render"
    /\ user_input = NoInput
    /\ is_valid
    /\ last_direction # Right

----------------------------------------------------------------------------
(* The quit key.                                                           *)

\* The fields of the game state.
game_fields == <<grid, head, tail, head_directions, last_direction>>

\* The step is a poll of the loop that returns Quit.
PollsQuit == pc = "poll" /\ pc' # "poll" /\ user_input' = Quit

\* C12: a poll that returns Quit ends the loop at once: the step leaves the
\* loop without an advance, and from there to the return of main the grid,
\* head, tail, head_directions and last_direction stay as the previous tick
\* left them.
C12_QuitShortCircuit ==
    [][/\ PollsQuit => pc' = "exit" /\ UNCHANGED game_fields
       /\ pc = "exit" => pc' = "done" /\ UNCHANGED game_fields]_vars

\* The game was quit with a snake that had grown and turned.
C12_Witness ==
    /\ pc = "done"
    /\ user_input = Quit
    /\ Len(head_directions) >= 2
    /\ last_direction # Right

----------------------------------------------------------------------------
(* The end of the game loop.                                               *)

\* The step leaves the game loop.
LeavesLoop == pc # "exit" /\ pc' = "exit"

\* The step renders the grid as it is.
Renders == screen'.grid = grid /\ grid' = grid /\ screen'.message # ""

\* C13, as stated: the loop is left only on the quit key or on an advance
\* that returned false, and the step that leaves it is a render of the grid.
C13_FinalRenderAlways ==
    [][LeavesLoop =>
           /\ user_input' = Quit \/ ~is_valid
           /\ pc = "render" /\ Renders]_vars

\* C13, amended: the loop is left only by the poll that returns Quit, which
\* leaves the screen as the previous tick rendered it, or by the render of
\* "Game is over" after an advance that returned false.
C13_FinalRenderOnGameOver ==
    [][LeavesLoop =>
           \/ PollsQuit /\ UNCHANGED screen
           \/ /\ pc = "render" /\ ~is_valid
              /\ Renders /\ screen'.message = "Game is over"]_vars

\* main has returned after a quit, the screen still showing the tick before
\* the quit key.
C13_Witness ==
    /\ pc = "done"
    /\ user_input = Quit
    /\ screen = [message |-> "Iteration", grid |-> grid]

----------------------------------------------------------------------------
(* The initial state.                                                      *)

\* The number of columns of the grid.
Columns == Cardinality(DOMAIN grid[0])

\* The state init_game_state is said to return.
InitialGame ==
    /\ head = <<0, 1>>
    /\ tail = <<0, 0>>
    /\ head_directions = <<Right>>
    /\ last_direction = Right
    /\ InsideGrid(grid, head)
    /\ InsideGrid(grid, tail)
    /\ \A c \in Cells(grid) :
           grid[c[1]][c[2]] = IF c \in {head, tail} THEN SNAKE ELSE EMPTY

\* C14, as stated: for every nrows > 0 and ncols > 0, init_game_state
\* returns, and what it returns is the initial game.
C14_InitialStateAnySize ==
    /\ pc # "panic"
    /\ pc = "add_food" => InitialGame

\* C14, amended: init_game_state returns exactly for the grids of two
\* columns or more, and what it returns is the initial game.
C14_InitialStateTwoColumns ==
    /\ pc = "panic" <=> Columns < 2
    /\ pc = "add_food" => InitialGame

\* init_game_state has returned the smallest game there is, two cells wide
\* and all snake.
C14_Witness ==
    /\ pc = "add_food"
    /\ Cells(grid) = {head, tail}

----------------------------------------------------------------------------
(* The path held by the queue.                                             *)

\* From pos the n oldest directions left of q, oldest (back) first, lead
\* through the grid g to h.
RECURSIVE PathFrom(_, _, _, _, _)
PathFrom(g, pos, q, n, h) ==
    /\ InsideGrid(g, pos)
    /\ IF n = 0 THEN pos = h
       ELSE PathFrom(g, NextCell(pos, q[n]), q, n - 1, h)

\* From the tail t the whole queue q leads through the grid g to the head h.
QueuePath(g, t, q, h) == PathFrom(g, t, q, Len(q), h)

\* The queue after this step if it is an advance that returns true: the
\* direction is pushed at the front and, when the tail moves, the back is
\* popped.
QueueStep ==
    LET pushed == <<new_direction>> \o head_directions
    IN  IF tail' # tail
        THEN SubSeq(pushed, 1, Len(pushed) - 1)
        ELSE pushed

\* C15: in every reachable state the directions of head_directions, applied
\* from the tail, oldest first, visit only positions of the grid and end at
\* the head; every advance that returns true pushes its direction at the
\* front and pops the back exactly when the tail moves, and no other step
\* changes head, tail or queue.
C15_QueuePath ==
    /\ QueuePath(grid, tail, head_directions, head)
    /\ [][/\ QueuePath(grid', tail', head_directions', head')
          /\ Advances => head' # head /\ head_directions' = QueueStep
          /\ ~Advances => UNCHANGED <<head, tail, head_directions>>]_vars

\* The queue holds a path with a turn in it, from a tail that has moved.
C15_Witness ==
    /\ pc = "render"
    /\ is_valid
    /\ Len(head_directions) >= 2
    /\ head_directions[1] # head_directions[2]
    /\ tail # <<0, 0>>

----------------------------------------------------------------------------
(* The snake on the grid.                                                  *)

\* C16: in every reachable state head_directions has one entry less than
\* the grid has SNAKE cells.
C16_QueueLength == Len(head_directions) = CountCells(grid, SNAKE) - 1

\* C17: after every advance that returns true the cell of the grid at the
\* new head is SNAKE.
C17_HeadCellIsSnake ==
    (pc = "render" /\ is_valid) => CellAt(grid, head) = SNAKE

\* The cells of g that hold FOOD.
FoodCells(g) == {p \in Cells(g) : CellAt(g, p) = FOOD}

\* C18: an advance that returns true changes no cell of the grid but the
\* new head's and the old tail's, and makes no food: the FOOD cells after it
\* are those before it, less the new head's when the head moves onto food.
C18_AdvanceFrame ==
    [][Advances =>
           /\ Changed(grid, grid') \subseteq {head', tail}
           /\ FoodCells(grid') = FoodCells(grid) \ {head'}
           /\ Cardinality(FoodCells(grid')) =
                  Cardinality(FoodCells(grid))
                      - (IF CellAt(grid, Target) = FOOD THEN 1 ELSE 0)]_vars

\* The head has moved onto food after the tail had left its first cell.
C18_Witness ==
    /\ pc = "render"
    /\ is_valid
    /\ found = FOOD
    /\ tail # <<0, 0>>
    /\ quiet = 0

----------------------------------------------------------------------------
(* The game without input.                                                 *)

\* main has returned after the game over of a run to the right: all the
\* advances were called with Right, there were GRID_COLUMNS - 1 of them, the
\* last one returned false, and those before it, having taken the head from
\* column 1 to the last column, returned true.
GameOverOnTheRight ==
    /\ pc = "done"
    /\ ~is_valid
    /\ screen.message = "Game is over"
    /\ straight.right
    /\ straight.k = GRID_COLUMNS - 1
    /\ head = <<0, GRID_COLUMNS - 1>>
    /\ last_direction = Right

\* C19: with no key ever pressed, whatever food add_food has placed, the
\* game ends in game over: the snake moves Right, GRID_COLUMNS - 2 advances
\* return true, the next returns false, and from then on no advance is
\* called.
C19_EndsWithoutInput ==
    /\ [](straight.right /\ straight.k <= GRID_COLUMNS - 1)
    /\ [](straight.valid <=> straight.k <= GRID_COLUMNS - 2)
    /\ <>[]GameOverOnTheRight

\* The game without input is over, the snake having eaten on its way.
C19_Witness ==
    /\ GameOverOnTheRight
    /\ straight.ate
    /\ CountCells(grid, FOOD) >= 1

----------------------------------------------------------------------------
(* The geometry of the directions.                                         *)

\* C20: for every position of the grid and every direction, _calc_position
\* returns the position plus the unit offset of the direction, as a signed
\* pair: Right (0, +1), Down (+1, 0), Left (0, -1), Up (-1, 0).
C20_DirectionGeometry ==
    pc = "position_done" =>
        /\ new_head[1] = head[1] + Offset(new_direction)[1]
        /\ new_head[2] = head[2] + Offset(new_direction)[2]

\* _calc_position has returned a pair with a negative part: the position
\* left of the corner.
C20_Witness ==
    /\ pc = "position_done"
    /\ head = <<0, 0>>
    /\ new_head = <<0, -1>>

====
